---- MODULE Spec2Model ----
(***************************************************************************)
(* Login lifecycle of ClientDiscordBot (src/structures/Client.js):         *)
(*   connect (mongoose, only if dbname) -> modules.init -> modules.start   *)
(*   -> super.login (transport authentication).                            *)
(* Every `await` is a suspension point; the code between two suspension    *)
(* points runs as one step of the event loop.  Several login calls may be  *)
(* made on the same client; each call has its own position pc[l].          *)
(***************************************************************************)
EXTENDS Integers, Sequences, FiniteSets, TLC

\* ---- bounds ----
MaxLogins == 2
NumModules == 2

\* ---- value domains ----
NULL == "null"
Logins == 1..MaxLogins
ModuleIds == 1..NumModules
Tokens == {"tokA", "tokB"}
Errors == {"errA", "errB"}
ReadyStates == {0, 1, 2}
DbNames == {NULL, "", "botdb"}

\* the client and its login calls
VARIABLES dbname, db, readyState, pc, idx, trace, initCalls, startCalls, outcome
\* one invocation of the help command's script (src/unnamed/part_000)
VARIABLES registry, args, command, sent, errorEvents, unhandled, scriptResult
\* one application of handleDescription
VARIABLES desc, formatted

loginVars == <<dbname, db, readyState, pc, idx, trace, initCalls, startCalls, outcome>>
helpVars == <<registry, args, command, sent, errorEvents, unhandled, scriptResult>>
descVars == <<desc, formatted>>
vars == <<loginVars, helpVars, descVars>>

\* `!this.dbname` : null and the empty string are falsy
Falsy(v) == v \in {NULL, ""}

\* the event log of login call l, extended by one event for the calls in W
Log(tr, W, e, v) ==
  [l \in Logins |-> IF l \in W THEN Append(tr[l], [ev |-> e, val |-> v]) ELSE tr[l]]

\* a fresh client, before any login call
ClientCreated(names) ==
  /\ dbname \in names
  /\ db = NULL
  /\ readyState = 0
  /\ pc = [l \in Logins |-> "Created"]
  /\ idx = [l \in Logins |-> 0]
  /\ trace = [l \in Logins |-> <<>>]
  /\ initCalls = [m \in ModuleIds |-> 0]
  /\ startCalls = [m \in ModuleIds |-> 0]
  /\ outcome = [l \in Logins |-> [kind |-> "pending", val |-> NULL]]

\* no help command is being handled
HelpIdle ==
  /\ registry = <<>>
  /\ args = <<>>
  /\ command = <<>>
  /\ sent = <<>>
  /\ errorEvents = <<>>
  /\ unhandled = <<>>
  /\ scriptResult = "notcalled"

\* no description is being formatted
DescIdle ==
  /\ desc = [t |-> "undefined", s |-> <<>>, a |-> <<>>]
  /\ formatted = [state |-> "none", ok |-> TRUE, val |-> <<>>]

Init == ClientCreated(DbNames) /\ HelpIdle /\ DescIdle

\* ---- external collaborators being invoked ----

\* mongoose.connect(url, dbOptions) is called; the call is now pending
Mongoose_connect(l, tr) ==
  /\ pc' = [pc EXCEPT ![l] = "DatabaseConnecting"]
  /\ trace' = Log(tr, {l}, "db.call", dbname)
  /\ UNCHANGED <<idx, initCalls, startCalls, outcome>>

\* connect() parks on the connection's 'open' event
WaitOpen(l, tr) ==
  /\ pc' = [pc EXCEPT ![l] = "WaitingOpen"]
  /\ trace' = tr
  /\ UNCHANGED <<idx, initCalls, startCalls, outcome>>

\* modules.init() is called by the login calls in W: the pass invokes the
\* first module's init hook and suspends on it
Modules_init(W, tr) ==
  /\ pc' = [l \in Logins |-> IF l \in W THEN "ModulesInitializing" ELSE pc[l]]
  /\ idx' = [l \in Logins |-> IF l \in W THEN 1 ELSE idx[l]]
  /\ trace' = Log(tr, W, "init.call", NULL)
  /\ initCalls' = [initCalls EXCEPT ![1] = @ + Cardinality(W)]
  /\ UNCHANGED <<startCalls, outcome>>

\* the init pass of call l moves on to the next module's init hook
Modules_init_next(l, tr) ==
  /\ idx' = [idx EXCEPT ![l] = @ + 1]
  /\ initCalls' = [initCalls EXCEPT ![idx[l] + 1] = @ + 1]
  /\ trace' = tr
  /\ UNCHANGED <<pc, startCalls, outcome>>

\* modules.start() is called: the pass invokes the first module's start hook
Modules_start(l, tr) ==
  /\ pc' = [pc EXCEPT ![l] = "ModulesStarting"]
  /\ idx' = [idx EXCEPT ![l] = 1]
  /\ trace' = Log(tr, {l}, "start.call", NULL)
  /\ startCalls' = [startCalls EXCEPT ![1] = @ + 1]
  /\ UNCHANGED <<initCalls, outcome>>

\* the start pass of call l moves on to the next module's start hook
Modules_start_next(l, tr) ==
  /\ idx' = [idx EXCEPT ![l] = @ + 1]
  /\ startCalls' = [startCalls EXCEPT ![idx[l] + 1] = @ + 1]
  /\ trace' = tr
  /\ UNCHANGED <<pc, initCalls, outcome>>

\* super.login(token): the transport's authentication is called; the token is
\* handed through unread
Transport_login(l, tr) ==
  /\ pc' = [pc EXCEPT ![l] = "AuthenticatingTransport"]
  /\ trace' = Log(tr, {l}, "auth.call", NULL)
  /\ UNCHANGED <<idx, initCalls, startCalls, outcome>>

\* the promise returned by login settles
Settle(l, k, v, tr) ==
  /\ pc' = [pc EXCEPT ![l] = IF k = "resolved" THEN "Online" ELSE "Failed"]
  /\ outcome' = [outcome EXCEPT ![l] = [kind |-> k, val |-> v]]
  /\ trace' = tr
  /\ UNCHANGED <<idx, initCalls, startCalls>>

\* ---- login and connect: what the code does at each resumption ----

\* line 157: `await this.connect()` has resolved; login calls this.modules.init()
login_connected(W, tr) == Modules_init(W, tr)

\* lines 140 and 156: both catch handlers re-throw, so login rejects with e
login_connect_failed_swallow(l, e, tr) == Modules_init({l}, tr)

login_connect_failed_retry(l, e, tr) == Mongoose_connect(l, tr)

login_connect_failed(l, e, tr) == Settle(l, "rejected", e, tr)

\* line 158: `await this.modules.init()` has resolved; login calls modules.start()
login_initialized_skip_start(l, tr) == Transport_login(l, tr)

login_initialized(l, tr) == Modules_start(l, tr)

\* line 157: `await this.modules.init()` throws; nothing catches it in login
login_init_failed_swallow(l, e, tr) == Modules_start(l, tr)

login_init_failed(l, e, tr) == Settle(l, "rejected", e, tr)

\* line 159: `await this.modules.start()` has resolved; login calls super.login
login_started(l, tr) == Transport_login(l, tr)

\* line 158: `await this.modules.start()` throws; nothing catches it in login
login_start_failed_swallow(l, e, tr) == Transport_login(l, tr)

login_start_failed(l, e, tr) == Settle(l, "rejected", e, tr)

\* line 159: login returns super.login's promise, so it settles as that one does
login_authenticated_own_token(l, r, tr) == Settle(l, "resolved", "tokA", tr)

login_authenticated(l, r, tr) == Settle(l, "resolved", r, tr)

login_auth_failed(l, e, tr) == Settle(l, "rejected", e, tr)

\* lines 141-144: mongoose.connect has resolved; wait for 'open' unless the
\* connection is already in readyState 1
connect_continue_nowait(l, tr) == login_connected({l}, tr)

connect_continue(l, tr) ==
  IF readyState # 1 THEN WaitOpen(l, tr) ELSE login_connected({l}, tr)

\* lines 138-139: connect returns at once without a database name
connect_always(l, tr) == Mongoose_connect(l, tr)

connect(l, tr) ==
  IF Falsy(dbname) THEN login_connected({l}, tr) ELSE Mongoose_connect(l, tr)

\* ---- actions: one per call or resumption ----

\* client.login(token) is called (any time, also while an earlier call is pending)
login(l) ==
  /\ pc[l] = "Created"
  /\ \A k \in Logins : k < l => pc[k] # "Created"
  /\ connect(l, trace)
  /\ UNCHANGED <<dbname, db, readyState>>
  /\ UNCHANGED <<helpVars, descVars>>

\* mongoose.connect resolves; this.db becomes the connection, whatever its
\* readyState is at that moment
connect_resolved(l) ==
  /\ pc[l] = "DatabaseConnecting"
  /\ db' = "connection"
  /\ connect_continue(l,
       Log(trace, {l}, "db.ok", IF readyState = 1 THEN "ready" ELSE "notready"))
  /\ UNCHANGED <<dbname, readyState>>
  /\ UNCHANGED <<helpVars, descVars>>

\* mongoose.connect rejects with e
connect_rejected_assigns_db(l, e) ==
  /\ pc[l] = "DatabaseConnecting"
  /\ db' = "connection"
  /\ login_connect_failed(l, e, Log(trace, {l}, "db.err", e))
  /\ UNCHANGED <<dbname, readyState>>
  /\ UNCHANGED <<helpVars, descVars>>

connect_rejected(l, e) ==
  /\ pc[l] = "DatabaseConnecting"
  /\ login_connect_failed(l, e, Log(trace, {l}, "db.err", e))
  /\ UNCHANGED <<dbname, db, readyState>>
  /\ UNCHANGED <<helpVars, descVars>>

\* mongoose.connect has been called at least once on this client
ConnectionRequested == \E l \in Logins : trace[l] # <<>> /\ trace[l][1].ev = "db.call"

\* the connection's readyState becomes rs, a state other than connected (1)
db_state(rs) ==
  /\ ConnectionRequested
  /\ rs # 1
  /\ rs # readyState
  /\ readyState' = rs
  /\ UNCHANGED <<dbname, db, pc, idx, trace, initCalls, startCalls, outcome>>
  /\ UNCHANGED <<helpVars, descVars>>

\* the connection emits 'open': every listener registered at line 142 resolves
db_open ==
  /\ ConnectionRequested
  /\ readyState # 1
  /\ readyState' = 1
  /\ LET W == {l \in Logins : pc[l] = "WaitingOpen"}
     IN IF W = {} THEN UNCHANGED <<pc, idx, trace, initCalls, startCalls, outcome>>
        ELSE login_connected(W, Log(trace, W, "db.open", NULL))
  /\ UNCHANGED <<dbname, db>>
  /\ UNCHANGED <<helpVars, descVars>>

\* the pending init hook of call l's pass resolves
init_hook_resolved(l) ==
  /\ pc[l] = "ModulesInitializing"
  /\ IF idx[l] < NumModules
     THEN Modules_init_next(l, trace)
     ELSE login_initialized(l, Log(trace, {l}, "init.ok", NULL))
  /\ UNCHANGED <<dbname, db, readyState>>
  /\ UNCHANGED <<helpVars, descVars>>

\* the pending init hook rejects: modules.init() rejects with e
init_hook_rejected(l, e) ==
  /\ pc[l] = "ModulesInitializing"
  /\ login_init_failed(l, e, Log(trace, {l}, "init.err", e))
  /\ UNCHANGED <<dbname, db, readyState>>
  /\ UNCHANGED <<helpVars, descVars>>

\* the pending start hook of call l's pass resolves
start_hook_resolved(l) ==
  /\ pc[l] = "ModulesStarting"
  /\ IF idx[l] < NumModules
     THEN Modules_start_next(l, trace)
     ELSE login_started(l, Log(trace, {l}, "start.ok", NULL))
  /\ UNCHANGED <<dbname, db, readyState>>
  /\ UNCHANGED <<helpVars, descVars>>

\* the pending start hook rejects: modules.start() rejects with e
start_hook_rejected(l, e) ==
  /\ pc[l] = "ModulesStarting"
  /\ login_start_failed(l, e, Log(trace, {l}, "start.err", e))
  /\ UNCHANGED <<dbname, db, readyState>>
  /\ UNCHANGED <<helpVars, descVars>>

\* the transport's authentication resolves with the session token r
auth_resolved(l, r) ==
  /\ pc[l] = "AuthenticatingTransport"
  /\ login_authenticated(l, r, Log(trace, {l}, "auth.ok", r))
  /\ UNCHANGED <<dbname, db, readyState>>
  /\ UNCHANGED <<helpVars, descVars>>

\* the transport's authentication rejects with e
auth_rejected(l, e) ==
  /\ pc[l] = "AuthenticatingTransport"
  /\ login_auth_failed(l, e, Log(trace, {l}, "auth.err", e))
  /\ UNCHANGED <<dbname, db, readyState>>
  /\ UNCHANGED <<helpVars, descVars>>

\* the settling of whatever external call login l is suspended on
ExternalSettles(l) ==
  \/ connect_resolved(l)
  \/ \E e \in Errors : connect_rejected(l, e)
  \/ init_hook_resolved(l)
  \/ \E e \in Errors : init_hook_rejected(l, e)
  \/ start_hook_resolved(l)
  \/ \E e \in Errors : start_hook_rejected(l, e)
  \/ \E r \in Tokens : auth_resolved(l, r)
  \/ \E e \in Errors : auth_rejected(l, e)

Next ==
  \/ \E l \in Logins : login(l)
  \/ \E l \in Logins : connect_resolved(l)
  \/ \E l \in Logins, e \in Errors : connect_rejected(l, e)
  \/ \E rs \in ReadyStates : db_state(rs)
  \/ db_open
  \/ \E l \in Logins : init_hook_resolved(l)
  \/ \E l \in Logins, e \in Errors : init_hook_rejected(l, e)
  \/ \E l \in Logins : start_hook_resolved(l)
  \/ \E l \in Logins, e \in Errors : start_hook_rejected(l, e)
  \/ \E l \in Logins, r \in Tokens : auth_resolved(l, r)
  \/ \E l \in Logins, e \in Errors : auth_rejected(l, e)

Spec == Init /\ [][Next]_vars

\* every external call that is pending eventually resolves or rejects; nothing
\* is assumed about the connection's 'open' event
LiveSpec == Spec /\ \A l \in Logins : WF_vars(ExternalSettles(l))

\* ---- vocabulary of the properties ----

Configured == ~Falsy(dbname)
Positions(l) == 1..Len(trace[l])
Ev(l, i) == trace[l][i].ev
Has(l, e) == \E i \in Positions(l) : Ev(l, i) = e
Count(l, e) == Cardinality({i \in Positions(l) : Ev(l, i) = e})
LastEvent(l) == trace[l][Len(trace[l])]
InFlight(l) ==
  pc[l] \in {"DatabaseConnecting", "WaitingOpen", "ModulesInitializing",
             "ModulesStarting", "AuthenticatingTransport"}
Settled(l) == pc[l] \in {"Online", "Failed"}
CallEvents == {"db.call", "init.call", "start.call", "auth.call"}
ErrEvents == {"db.err", "init.err", "start.err", "auth.err"}

\* C1: within one login call the steps are called in the order database connect
\* (only with a database name) -> modules.init -> modules.start -> transport
\* authentication, each one called right after the previous one resolved.
C1_StepsInOrder ==
  \A l \in Logins : \A i \in Positions(l) :
    /\ i = 1 => Ev(l, 1) = IF Configured THEN "db.call" ELSE "init.call"
    /\ Ev(l, i) = "db.call" => i = 1 /\ Configured
    /\ Ev(l, i) = "init.call" /\ Configured =>
         /\ i > 1
         /\ \/ trace[l][i - 1] = [ev |-> "db.ok", val |-> "ready"]
            \/ Ev(l, i - 1) = "db.open"
    /\ Ev(l, i) = "start.call" => i > 1 /\ Ev(l, i - 1) = "init.ok"
    /\ Ev(l, i) = "auth.call" => i > 1 /\ Ev(l, i - 1) = "start.ok"
    /\ Ev(l, i) = "init.ok" => i > 1 /\ Ev(l, i - 1) = "init.call"
    /\ Ev(l, i) = "start.ok" => i > 1 /\ Ev(l, i - 1) = "start.call"

\* a login call with a database name went through all four steps
C1_Witness ==
  \E l \in Logins : Configured /\ pc[l] = "Online" /\ Has(l, "db.open")

\* C2: when modules.init rejects, that login call invokes no start, attempts no
\* transport authentication, and rejects with the error of modules.init.
C2_InitFailureAborts ==
  \A l \in Logins : \A i \in Positions(l) :
    Ev(l, i) = "init.err" =>
      /\ ~Has(l, "start.call")
      /\ ~Has(l, "auth.call")
      /\ pc[l] = "Failed"
      /\ outcome[l] = [kind |-> "rejected", val |-> trace[l][i].val]

\* the second module's init hook failed, after the first one's had resolved
C2_Witness ==
  \E l \in Logins : Has(l, "init.err") /\ idx[l] = NumModules

\* C3: when modules.start rejects, that login call attempts no transport
\* authentication, never is Online, and rejects with the error of modules.start.
C3_StartFailureAborts ==
  \A l \in Logins : \A i \in Positions(l) :
    Ev(l, i) = "start.err" =>
      /\ ~Has(l, "auth.call")
      /\ pc[l] = "Failed"
      /\ outcome[l] = [kind |-> "rejected", val |-> trace[l][i].val]

\* the last module's start hook failed, after every init hook had resolved
C3_Witness ==
  \E l \in Logins : Has(l, "start.err") /\ Has(l, "init.ok") /\ idx[l] = NumModules

\* C4: when the database connection attempt fails, login ends Failed, rejecting
\* with that same error, and calls none of modules.init, modules.start and the
\* transport authentication.
C4_DatabaseFailureAborts ==
  \A l \in Logins : \A i \in Positions(l) :
    Ev(l, i) = "db.err" =>
      /\ pc[l] = "Failed"
      /\ outcome[l] = [kind |-> "rejected", val |-> trace[l][i].val]
      /\ ~Has(l, "init.call") /\ ~Has(l, "start.call") /\ ~Has(l, "auth.call")
      /\ idx[l] = 0

\* a database connection attempt failed
C4_Witness ==
  \E l \in Logins : Has(l, "db.err") /\ outcome[l].val = "errB"

\* C5: without a database name login attempts no database connection: a call
\* goes from Created straight to ModulesInitializing and db stays unset.
C5_NoDatabaseWithoutName ==
  ~Configured =>
    /\ db = NULL
    /\ \A l \in Logins :
         /\ pc[l] \notin {"DatabaseConnecting", "WaitingOpen"}
         /\ pc[l] # "Created" => Ev(l, 1) = "init.call"
         /\ \A i \in Positions(l) : Ev(l, i) \notin {"db.call", "db.ok", "db.err", "db.open"}

\* a login without a database name ran to Online
C5_Witness ==
  ~Configured /\ \E l \in Logins : pc[l] = "Online"

\* C6: every login call that has begun eventually is Online or Failed.
C6_LoginTerminates ==
  \A l \in Logins : (pc[l] # "Created") ~> Settled(l)

\* C7: at most one connect/init/start/authenticate chain is in flight at a time.
C7_OneChainInFlight ==
  Cardinality({l \in Logins : InFlight(l)}) <= 1

\* C8: over the client's lifetime every module's init hook and every module's
\* start hook is invoked at most once, however many login calls are made.
C8_PassesRunOnce ==
  \A m \in ModuleIds : initCalls[m] <= 1 /\ startCalls[m] <= 1

\* C9: with a database name, a login call invokes modules.init only in a step
\* in which the connection is in readyState 1: connect found it ready when
\* mongoose.connect resolved, or the 'open' event has just been emitted.
C9_InitAfterReady ==
  [][\A l \in Logins :
       (Configured /\ pc[l] # "ModulesInitializing" /\ pc'[l] = "ModulesInitializing")
         => /\ readyState' = 1
            /\ db' # NULL
            /\ \/ pc[l] = "DatabaseConnecting" /\ readyState = 1
               \/ pc[l] = "WaitingOpen" /\ readyState # 1]_vars

\* a login call waited for 'open' and then invoked modules.init
C9_Witness ==
  \E l \in Logins :
    Configured /\ pc[l] = "ModulesInitializing" /\ Has(l, "db.open")

\* C10: no retries: within one login call each of the four steps is called at
\* most once, and the first failure ends the call and is its outcome.
C10_NoRetries ==
  \A l \in Logins :
    /\ \A c \in CallEvents : Count(l, c) <= 1
    /\ \A i \in Positions(l) :
         Ev(l, i) \in ErrEvents =>
           /\ i = Len(trace[l])
           /\ pc[l] = "Failed"
           /\ outcome[l] = [kind |-> "rejected", val |-> trace[l][i].val]

\* a login call made all four calls and the last one failed
C10_Witness ==
  \E l \in Logins :
    /\ \A c \in CallEvents : Count(l, c) = 1
    /\ LastEvent(l).ev = "auth.err"

\* C11: a login call is Online only once the transport's authentication has
\* resolved, and login settles exactly as that authentication did: resolved
\* with the token the transport returned, rejected with the transport's error.
C11_OutcomeIsAuthOutcome ==
  \A l \in Logins :
    /\ (pc[l] = "Online" \/ outcome[l].kind = "resolved") =>
         /\ LastEvent(l).ev = "auth.ok"
         /\ pc[l] = "Online"
         /\ outcome[l] = [kind |-> "resolved", val |-> LastEvent(l).val]
    /\ \A i \in Positions(l) :
         /\ Ev(l, i) = "auth.ok" =>
              outcome[l] = [kind |-> "resolved", val |-> trace[l][i].val]
         /\ Ev(l, i) = "auth.err" =>
              outcome[l] = [kind |-> "rejected", val |-> trace[l][i].val]

\* one call resolved with the token the transport returned, another was
\* rejected with the transport's error
C11_Witness ==
  /\ \E l \in Logins : outcome[l] = [kind |-> "resolved", val |-> "tokB"]
  /\ \E l \in Logins : Has(l, "auth.err") /\ outcome[l].kind = "rejected"

\* C17: db is non-null only if a database name was configured and a
\* mongoose.connect call has resolved; a login call that fails at the database
\* step, and a login call without a database name, leave db as it was.
C17_DbHandle ==
  [][/\ db' # NULL =>
          /\ ~Falsy(dbname')
          /\ \E l \in Logins : \E i \in 1..Len(trace'[l]) : trace'[l][i].ev = "db.ok"
     /\ (\E l \in Logins : pc[l] = "DatabaseConnecting" /\ pc'[l] = "Failed") => db' = db
     /\ Falsy(dbname) => db' = db
     /\ (\A l \in Logins : pc'[l] = "DatabaseConnecting" <=> pc[l] = "DatabaseConnecting")
          => db' = db]_vars

\* a login call failed at the database step on a fresh client: db is still null
C17_Witness ==
  /\ db = NULL
  /\ \E l \in Logins : Has(l, "db.err") /\ pc[l] = "Failed"

\* ---- handleDescription (src/unnamed/part_000, lines 40-45) ----

\* bounds of the descriptions tried
MaxStrLen == 2
MaxLines == 2

\* a JavaScript string is the sequence of its characters
Chars == {"a", ","}
NL == "\n"
Strings == UNION {[1..n -> Chars] : n \in 0..MaxStrLen}
StringArrays == UNION {[1..n -> Strings] : n \in 0..MaxLines}

\* a JavaScript value: t is its kind, s its characters when it is a string,
\* a its elements when it is an array of strings
JsString(str) == [t |-> "string", s |-> str, a |-> <<>>]
JsArray(arr) == [t |-> "array", s |-> <<>>, a |-> arr]
JsNull == [t |-> "null", s |-> <<>>, a |-> <<>>]
JsUndefined == [t |-> "undefined", s |-> <<>>, a |-> <<>>]
JsNumber == [t |-> "number", s |-> <<>>, a |-> <<>>]
JsPlainObject == [t |-> "plainobject", s |-> <<>>, a |-> <<>>]
DescInputs ==
  {JsString(str) : str \in Strings} \cup {JsArray(arr) : arr \in StringArrays}
    \cup {JsNull, JsUndefined, JsNumber, JsPlainObject}

\* 'La description de cette commande ne peut pas etre affichee'
Unavailable == <<"La description de cette commande ne peut pas etre affichee">>
TypeError == <<"TypeError">>

\* the typeof operator
TypeOf(x) ==
  CASE x.t = "string" -> "string"
    [] x.t = "number" -> "number"
    [] x.t = "undefined" -> "undefined"
    [] OTHER -> "object"

\* desc.map(d => `${d}\n`)
MapNewline(a) == [i \in 1..Len(a) |-> Append(a[i], NL)]

\* Array.prototype.toString: the elements joined with ","
RECURSIVE ArrayToString(_)
ArrayToString(a) ==
  IF a = <<>> THEN <<>>
  ELSE IF Len(a) = 1 THEN a[1]
  ELSE a[1] \o <<",">> \o ArrayToString(Tail(a))

\* .replace(/,/g, '')
ReplaceCommas(str) == SelectSeq(str, LAMBDA ch : ch # ",")

\* handleDescription(desc): [ok |-> FALSE] is a thrown TypeError
handleDescription(d) ==
  IF TypeOf(d) = "object" /\ d.t = "null"
    THEN [ok |-> FALSE, val |-> TypeError]
  ELSE IF TypeOf(d) = "object" /\ d.t = "array"
    THEN [ok |-> TRUE, val |-> ReplaceCommas(ArrayToString(MapNewline(d.a)))]
  ELSE IF TypeOf(d) # "string"
    THEN [ok |-> TRUE, val |-> Unavailable]
  ELSE [ok |-> TRUE, val |-> d.s]

\* handleDescription is applied to desc
format ==
  /\ formatted.state = "none"
  /\ formatted' = [state |-> "done", ok |-> handleDescription(desc).ok,
                                      val |-> handleDescription(desc).val]
  /\ UNCHANGED <<desc, loginVars, helpVars>>

DescInit ==
  /\ ClientCreated({NULL})
  /\ HelpIdle
  /\ desc \in DescInputs
  /\ formatted = [state |-> "none", ok |-> TRUE, val |-> <<>>]

DescNext == format

DescSpec == DescInit /\ [][DescNext]_vars

\* the strings of a, each followed by a line break
RECURSIVE Lines(_)
Lines(a) == IF a = <<>> THEN <<>> ELSE a[1] \o <<NL>> \o Lines(Tail(a))

\* the strings of a with a line break between consecutive ones
RECURSIVE JoinLines(_)
JoinLines(a) ==
  IF a = <<>> THEN <<>>
  ELSE IF Len(a) = 1 THEN a[1]
  ELSE a[1] \o <<NL>> \o JoinLines(Tail(a))

\* C16: an array of strings is formatted as its strings joined with line
\* breaks, every character of every string kept (commas too); a string is
\* returned unchanged; any other value, null and undefined included, gives the
\* 'unavailable' placeholder and no error.
C16_DescriptionFormatting ==
  formatted.state = "done" =>
    /\ formatted.ok
    /\ desc.t = "array" => formatted.val \in {JoinLines(desc.a), Lines(desc.a)}
    /\ desc.t = "string" => formatted.val = desc.s
    /\ desc.t \notin {"array", "string"} => formatted.val = Unavailable

\* ---- the help command (src/unnamed/part_000, lines 2-38) ----

\* bounds of the registries and argument lists tried
MaxCommands == 2
MaxArgs == 2

Names == {"Help", "Ping"}
AliasLists == {<<"h", "help">>, <<"p">>, <<"H", "p">>}
Groups == {"help", "util"}
HelpTokens == {"h", "H", "p", "x"}

\* the description a command of that name carries: an array of strings (as
\* Help's own, lines 5-9) or a single string
DescriptionOf(n) ==
  IF n = "Help" THEN JsArray(<< <<"a">>, <<"a", "a">> >>) ELSE JsString(<<"a">>)

Commands ==
  {[name |-> n, alias |-> al, description |-> DescriptionOf(n), group |-> g] :
     n \in Names, al \in AliasLists, g \in Groups}

\* Bot.commands in registration order, and the parsed arguments
Registries == UNION {[1..n -> Commands] : n \in 0..MaxCommands}
ArgLists == UNION {[1..n -> HelpTokens] : n \in 0..MaxArgs}

\* the client after a login call without a database went Online
ClientOnline ==
  /\ dbname = NULL
  /\ db = NULL
  /\ readyState = 0
  /\ pc = [l \in Logins |-> IF l = 1 THEN "Online" ELSE "Created"]
  /\ idx = [l \in Logins |-> IF l = 1 THEN NumModules ELSE 0]
  /\ trace = [l \in Logins |->
       IF l = 1
       THEN << [ev |-> "init.call", val |-> NULL], [ev |-> "init.ok", val |-> NULL],
               [ev |-> "start.call", val |-> NULL], [ev |-> "start.ok", val |-> NULL],
               [ev |-> "auth.call", val |-> NULL], [ev |-> "auth.ok", val |-> "tokA"] >>
       ELSE <<>>]
  /\ initCalls = [m \in ModuleIds |-> 1]
  /\ startCalls = [m \in ModuleIds |-> 1]
  /\ outcome = [l \in Logins |->
       IF l = 1 THEN [kind |-> "resolved", val |-> "tokA"]
       ELSE [kind |-> "pending", val |-> NULL]]

\* a value that may be undefined is <<>> (undefined) or <<x>>
\* JavaScript truthiness of such a value when x is a string
TruthyString(r) == r # <<>> /\ r[1] # ""

\* command.alias.find(alias => cmd === alias): the first alias equal to cmd
alias_find(alias, cmd) ==
  LET hits == SelectSeq(alias, LAMBDA x : cmd = x)
  IN IF hits = <<>> THEN <<>> ELSE <<hits[1]>>

\* Bot.commands.find(fn): the first command, in registration order, for which
\* the callback's result is truthy
RECURSIVE commands_find_last(_, _)
commands_find_last(reg, cmd) ==
  IF reg = <<>> THEN <<>>
  ELSE IF TruthyString(alias_find(reg[Len(reg)].alias, cmd)) THEN <<reg[Len(reg)]>>
  ELSE commands_find_last(SubSeq(reg, 1, Len(reg) - 1), cmd)

RECURSIVE commands_find(_, _)
commands_find(reg, cmd) ==
  IF reg = <<>> THEN <<>>
  ELSE IF TruthyString(alias_find(Head(reg).alias, cmd)) THEN <<Head(reg)>>
  ELSE commands_find(Tail(reg), cmd)

\* Bot.commands.regroup(): one pass over the registry; keys are the group
\* names in order of first occurrence, get[g] the commands of group g in order
RECURSIVE regroup_keys(_, _)
regroup_keys(reg, acc) ==
  IF reg = <<>> THEN acc
  ELSE regroup_keys(Tail(reg),
         IF \E k \in 1..Len(acc) : acc[k] = Head(reg).group
         THEN acc ELSE Append(acc, Head(reg).group))

regroup(reg) ==
  [keys |-> regroup_keys(reg, <<>>),
   get |-> [g \in Groups |-> SelectSeq(reg, LAMBDA c : c.group = g)]]

\* lines 18-21 and 31-34: the field built for one command; the value keeps the
\* formatted description and the alias list apart
Help_field(c) ==
  [name |-> c.name,
   value |-> [description |-> handleDescription(c.description).val,
              commandes |-> c.alias]]

\* lines 17-22: group.map(command => field)
Help_fields_first_only(group) ==
  IF group = <<>> THEN <<>> ELSE <<Help_field(group[1])>>

Help_fields(group) == [i \in 1..Len(group) |-> Help_field(group[i])]

\* handleDescription throws for some command of the group
Help_throws(group) ==
  \E i \in 1..Len(group) : ~handleDescription(group[i].description).ok

\* message.channel.send(member, embed): a display unit on its way
NoSection == "-"
Unit(section, fields) ==
  [section |-> section, fields |-> fields, status |-> "pending", error |-> NULL]

\* lines 13-25: one embed per key of regroup(), sent in key order; a throw
\* inside the map ends the script after the sends already made
Help_all(reg) ==
  LET groups == regroup(reg)
      n == Len(groups.keys)
      bad == {k \in 1..n : Help_throws(groups.get[groups.keys[k]])}
      stop == IF bad = {} THEN n
              ELSE (CHOOSE k \in bad : \A j \in bad : k <= j) - 1
  IN [sends |-> [k \in 1..stop |->
                   Unit(groups.keys[k], Help_fields(groups.get[groups.keys[k]]))],
      ok |-> bad = {},
      command |-> <<>>]

\* line 27: const cmd = args[0]
Help_cmd_last(a) == a[Len(a)]

Help_cmd(a) == a[1]

\* lines 27-35: look the command up; return without output when none is found
Help_one_always_sends(reg, a) ==
  LET found == commands_find(reg, Help_cmd(a))
  IN [sends |-> << Unit(NoSection,
                        IF found = <<>> THEN <<>> ELSE <<Help_field(found[1])>>) >>,
      ok |-> TRUE,
      command |-> found]

Help_one(reg, a) ==
  LET found == commands_find(reg, Help_cmd(a))
  IN IF found = <<>>
       THEN [sends |-> <<>>, ok |-> TRUE, command |-> found]
     ELSE IF ~handleDescription(found[1].description).ok
       THEN [sends |-> <<>>, ok |-> FALSE, command |-> found]
     ELSE [sends |-> << Unit(NoSection, <<Help_field(found[1])>>) >>,
           ok |-> TRUE,
           command |-> found]

\* lines 11-37: what one invocation of the script sends and how it ends
Help_script(reg, a) ==
  IF Len(a) = 0 THEN Help_all(reg) ELSE Help_one(reg, a)

\* Client.js lines 166-175: handleError(error) on the Bot, which has emit
BotHasEmit == TRUE
handleError(e) ==
  IF ~BotHasEmit
  THEN unhandled' = Append(unhandled, e) /\ UNCHANGED errorEvents
  ELSE errorEvents' = Append(errorEvents, e) /\ UNCHANGED unhandled

\* lines 24 and 35: .catch(error => Bot.handleError(error))
Help_send_failed_no_catch(e) ==
  unhandled' = Append(unhandled, e) /\ UNCHANGED errorEvents

Help_send_failed(e) == handleError(e)

\* the dispatcher invokes the script
script ==
  /\ scriptResult = "notcalled"
  /\ LET r == Help_script(registry, args)
     IN /\ sent' = r.sends
        /\ command' = r.command
        /\ scriptResult' = IF r.ok THEN "resolved" ELSE "rejected"
  /\ UNCHANGED <<registry, args, errorEvents, unhandled, loginVars, descVars>>

\* the send of unit i is delivered
send_resolved(i) ==
  /\ i \in 1..Len(sent)
  /\ sent[i].status = "pending"
  /\ sent' = [sent EXCEPT ![i].status = "delivered"]
  /\ UNCHANGED <<registry, args, command, errorEvents, unhandled, scriptResult>>
  /\ UNCHANGED <<loginVars, descVars>>

\* the send of unit i fails with e
send_rejected(i, e) ==
  /\ i \in 1..Len(sent)
  /\ sent[i].status = "pending"
  /\ sent' = [sent EXCEPT ![i].status = "failed", ![i].error = e]
  /\ Help_send_failed(e)
  /\ UNCHANGED <<registry, args, command, scriptResult, loginVars, descVars>>

HelpInit ==
  /\ ClientOnline
  /\ DescIdle
  /\ registry \in Registries
  /\ args \in ArgLists
  /\ command = <<>>
  /\ sent = <<>>
  /\ errorEvents = <<>>
  /\ unhandled = <<>>
  /\ scriptResult = "notcalled"

HelpNext ==
  \/ script
  \/ \E i \in 1..Len(sent) : send_resolved(i)
  \/ \E i \in 1..Len(sent), e \in Errors : send_rejected(i, e)

HelpSpec == HelpInit /\ [][HelpNext]_vars

\* ---- vocabulary of the help properties ----

Called == scriptResult # "notcalled"
\* the registry positions of the commands that have tok among their aliases
Holders(tok) ==
  {i \in 1..Len(registry) : \E j \in 1..Len(registry[i].alias) : registry[i].alias[j] = tok}
\* the first registry position of a command of group g
FirstOf(g) ==
  CHOOSE i \in 1..Len(registry) :
    registry[i].group = g /\ \A j \in 1..(i - 1) : registry[j].group # g
\* the registry positions of the commands of group g, in order
RECURSIVE MembersFrom(_, _)
MembersFrom(g, i) ==
  IF i > Len(registry) THEN <<>>
  ELSE IF registry[i].group = g THEN <<i>> \o MembersFrom(g, i + 1)
  ELSE MembersFrom(g, i + 1)
\* what of a display unit the reader sees
Shown(units) ==
  [k \in 1..Len(units) |-> [section |-> units[k].section, fields |-> units[k].fields]]
Failures(e) == Cardinality({k \in 1..Len(sent) : sent[k].status = "failed" /\ sent[k].error = e})
Emitted(e) == Cardinality({k \in 1..Len(errorEvents) : errorEvents[k] = e})
RECURSIVE TotalFields(_)
TotalFields(units) ==
  IF units = <<>> THEN 0 ELSE Len(Head(units).fields) + TotalFields(Tail(units))

C13_HelpAll ==
  (Called /\ args = <<>>) =>
    /\ Len(sent) = Cardinality({registry[i].group : i \in 1..Len(registry)})
    /\ \A k \in 1..Len(sent) :
         /\ \E i \in 1..Len(registry) : registry[i].group = sent[k].section
         /\ \A j \in 1..(k - 1) : FirstOf(sent[j].section) < FirstOf(sent[k].section)
         /\ LET members == MembersFrom(sent[k].section, 1)
            IN /\ Len(sent[k].fields) = Len(members)
               /\ \A i \in 1..Len(members) :
                    /\ sent[k].fields[i].name = registry[members[i]].name
                    /\ sent[k].fields[i].value.commandes = registry[members[i]].alias
    /\ TotalFields(sent) = Len(registry)
    /\ registry = <<>> => sent = <<>>

\* two commands of one group were shown in one unit, in registration order
C13_Witness ==
  /\ Called /\ args = <<>>
  /\ Len(sent) = 1 /\ Len(sent[1].fields) = 2
  /\ registry[1].name # registry[2].name

\* C14: with one argument the script sends nothing when no registered command
\* has the token among its aliases, and otherwise exactly one unit with exactly
\* one field, that of a command holding the token.
C14_HelpOne ==
  (Called /\ Len(args) = 1) =>
    IF Holders(args[1]) = {} THEN sent = <<>>
    ELSE /\ Len(sent) = 1
         /\ Len(sent[1].fields) = 1
         /\ \E i \in Holders(args[1]) :
              /\ sent[1].fields[1].name = registry[i].name
              /\ sent[1].fields[1].value.commandes = registry[i].alias

\* one of two registered commands was looked up and shown alone
C14_Witness ==
  /\ Called /\ Len(args) = 1
  /\ Len(registry) = 2 /\ Cardinality(Holders(args[1])) = 1
  /\ Len(sent) = 1

\* C15: the lookup gives the first command in registration order whose alias
\* list contains the token exactly; a later command with the same alias is
\* never the one found.
C15_FirstAliasWins ==
  (Called /\ Len(args) >= 1) =>
    IF Holders(args[1]) = {} THEN command = <<>>
    ELSE /\ Len(command) = 1
         /\ \E i \in Holders(args[1]) :
              /\ \A j \in Holders(args[1]) : i <= j
              /\ command[1] = registry[i]

\* two different commands share the alias asked for; the first one was found
C15_Witness ==
  /\ Called /\ Len(args) >= 1
  /\ Holders(args[1]) = {1, 2}
  /\ registry[1] # registry[2]
  /\ command = <<registry[1]>>

\* C18: with two or more arguments the script looks up and sends exactly what
\* it does when given the first argument alone.
C18_OnlyFirstArgument ==
  (Called /\ Len(args) >= 2) =>
    /\ command = Help_script(registry, <<args[1]>>).command
    /\ Shown(sent) = Shown(Help_script(registry, <<args[1]>>).sends)
    /\ IF Holders(args[1]) = {} THEN sent = <<>> ELSE Len(sent) = 1

\* the second argument differs from the first and names no command; the
\* command of the first argument was shown
C18_Witness ==
  /\ Called /\ Len(args) = 2
  /\ args[1] # args[2]
  /\ Holders(args[2]) = {}
  /\ Len(sent) = 1
====
